---- MODULE Spec2Model ----
(***************************************************************************)
(* Model of modis_atm/overpass_filter.py: grouping of parsed entries by   *)
(* overpass date, the temporal and spatial scores, and the selection of    *)
(* the best overpass.                                                      *)
(*                                                                         *)
(* Time is counted in ticks of the clock's resolution (datetime counts     *)
(* microseconds); TicksPerHour ticks make one hour.  Floats are modelled   *)
(* as exact rationals [num, den] in lowest terms with den > 0.  A geometry *)
(* is the finite set of unit cells it covers; its area is its cardinality. *)
(***************************************************************************)
EXTENDS Integers, Sequences, FiniteSets

\* ---------------------------------------------------------------- bounds

MaxEntries == 2
MaxTime == 3

\* the resolution of the model's clock: ticks in one hour (datetime counts
\* 3 600 000 000 microseconds in one)
TicksPerHour == 2

\* ------------------------------------------------------------- rationals

Abs(x) == IF x < 0 THEN -x ELSE x

RECURSIVE Gcd(_, _)
Gcd(a, b) == IF b = 0 THEN a ELSE Gcd(b, a % b)

\* n / d for d # 0, in lowest terms with a positive denominator
Rat(n, d) ==
    LET g == Gcd(Abs(n), Abs(d))
        s == IF d < 0 THEN -1 ELSE 1
    IN  [num |-> s * (n \div g), den |-> s * (d \div g)]

RatZero == [num |-> 0, den |-> 1]
RatOne == [num |-> 1, den |-> 1]
RatOfInt(n) == [num |-> n, den |-> 1]
RatAdd(a, b) == Rat(a.num * b.den + b.num * a.den, a.den * b.den)
RatSub(a, b) == Rat(a.num * b.den - b.num * a.den, a.den * b.den)
RatDiv(a, b) == Rat(a.num * b.den, a.den * b.num)
RatLess(a, b) == a.num * b.den < b.num * a.den
RatLeq(a, b) == a.num * b.den <= b.num * a.den
RatAbs(a) == [num |-> Abs(a.num), den |-> a.den]

\* ------------------------------------------------------------ timestamps
\* A timestamp is [cls, wall, aware, off]: cls is "datetime" or "date" (a
\* datetime.date, which has no tzinfo), wall the wall-clock reading in ticks,
\* aware whether tzinfo is set, off the UTC offset in ticks (0 when naive).

Naive(w) == [cls |-> "datetime", wall |-> w, aware |-> FALSE, off |-> 0]
Aware(w, o) == [cls |-> "datetime", wall |-> w, aware |-> TRUE, off |-> o]
Date(w) == [cls |-> "date", wall |-> w, aware |-> FALSE, off |-> 0]

\* the instant of an aware datetime on the UTC time line
Utc(d) == d.wall - d.off

\* d1 - d2 raises TypeError: a date against a datetime, or a naive datetime
\* against an aware one
SubtractRaises(d1, d2) == d1.cls # d2.cls \/ d1.aware # d2.aware

\* d1 - d2 as a timedelta in ticks: two aware datetimes are compared on the
\* UTC time line, two naive ones by their wall clocks
Subtract(d1, d2) ==
    IF d1.aware /\ d2.aware THEN Utc(d1) - Utc(d2) ELSE d1.wall - d2.wall

\* d.replace(tzinfo=None) raises TypeError on a date
ReplaceRaises(d) == d.cls = "date"

\* mutant of ReplaceTzNone: converts to UTC before dropping tzinfo
ReplaceTzAsUtc(d) == [d EXCEPT !.wall = Utc(d), !.aware = FALSE, !.off = 0]

\* d.replace(tzinfo=None): the same wall clock without tzinfo, no conversion
ReplaceTzNone(d) == [d EXCEPT !.aware = FALSE, !.off = 0]

\* d + td keeps the tzinfo of d
AddDelta(d, td) == [d EXCEPT !.wall = d.wall + td]

\* timedelta / 2 rounds to the nearest tick, halves to the even tick
HalfDelta(td) ==
    LET q == td \div 2
    IN  IF td % 2 = 0 THEN q ELSE IF q % 2 = 0 THEN q ELSE q + 1

\* equality of datetimes as dictionary keys: aware ones denote the same
\* instant, naive ones show the same wall clock, and a naive one never
\* equals an aware one
DateEq(d1, d2) ==
    /\ d1.cls = d2.cls
    /\ d1.aware = d2.aware
    /\ IF d1.aware THEN Utc(d1) = Utc(d2) ELSE d1.wall = d2.wall

_average_datetime(date1, date2) ==
    LET dt == Subtract(date2, date1)
    IN  AddDelta(date1, HalfDelta(dt))

\* ------------------------------------------------------------ the scores
\* What a call yields: kind "value" with the float returned, or the name of
\* the exception that propagates out of it.

Value(v) == [kind |-> "value", val |-> v]
Raised(name) == [kind |-> name, val |-> RatZero]

\* mutant of DiffHours: the difference keeps its sign
DiffHoursSigned(ddiff) == RatDiv(RatOfInt(ddiff), RatOfInt(TicksPerHour))

\* mutant of DiffHours: the difference is not converted to hours
DiffHoursUnscaled(ddiff) == RatAbs(RatOfInt(ddiff))

\* abs(ddiff.total_seconds() / 3600)
DiffHours(ddiff) == RatAbs(RatDiv(RatOfInt(ddiff), RatOfInt(TicksPerHour)))

\* the cutoff test of _value_date
BeyondCutoff(diff_hours, max_diff_hours) ==
    RatLess(RatOfInt(max_diff_hours), diff_hours)

\* mutant of TimePct: the value grows with the difference
TimePctFarthest(diff_hours, max_diff_hours) ==
    IF BeyondCutoff(diff_hours, max_diff_hours) THEN Value(RatZero)
    ELSE IF max_diff_hours = 0 THEN Raised("ZeroDivisionError")
    ELSE Value(RatDiv(diff_hours, RatOfInt(max_diff_hours)))

\* the tail of _value_date, from the cutoff test on
TimePct(diff_hours, max_diff_hours) ==
    IF BeyondCutoff(diff_hours, max_diff_hours) THEN Value(RatZero)
    ELSE IF max_diff_hours = 0 THEN Raised("ZeroDivisionError")
    ELSE Value(RatDiv(RatSub(RatOfInt(max_diff_hours), diff_hours),
                      RatOfInt(max_diff_hours)))

\* the except branch of _value_date
RetryNaive(overpass_date, target_date, max_diff_hours) ==
    IF ReplaceRaises(overpass_date) \/ ReplaceRaises(target_date)
    THEN Raised("TypeError")
    ELSE LET o == ReplaceTzNone(overpass_date)
             t == ReplaceTzNone(target_date)
         IN  IF SubtractRaises(o, t) THEN Raised("TypeError")
             ELSE TimePct(DiffHours(Subtract(o, t)), max_diff_hours)

_value_date(overpass_date, target_date, max_diff_hours) ==
    IF SubtractRaises(overpass_date, target_date)
    THEN RetryNaive(overpass_date, target_date, max_diff_hours)
    ELSE TimePct(DiffHours(Subtract(overpass_date, target_date)),
                 max_diff_hours)

Area(geom) == Cardinality(geom)

_value_overlap(footprint_geom, aoi_geom) ==
    LET intersection == aoi_geom \cap footprint_geom
    IN  IF Area(aoi_geom) = 0 THEN Raised("ZeroDivisionError")
        ELSE Value(Rat(Area(intersection), Area(aoi_geom)))

\* np.sum of a list of floats
RECURSIVE Sum(_)
Sum(values) ==
    IF values = <<>> THEN RatZero
    ELSE RatAdd(Sum(SubSeq(values, 1, Len(values) - 1)), values[Len(values)])

\* mutant of OverlapSum: the overlap of the union of the footprints
OverlapOfUnion(entries, aoi_geom) ==
    IF Area(aoi_geom) = 0 THEN Raised("ZeroDivisionError")
    ELSE Value(Rat(Area(aoi_geom \cap UNION {entries[i].footprint :
                                               i \in DOMAIN entries}),
                   Area(aoi_geom)))

\* the loop filling overlap_values and its sum; the first entry's division
\* by a zero AOI area propagates
OverlapSum(entries, aoi_geom) ==
    IF \E i \in DOMAIN entries :
           _value_overlap(entries[i].footprint, aoi_geom).kind # "value"
    THEN Raised("ZeroDivisionError")
    ELSE Value(Sum([i \in DOMAIN entries |->
                      _value_overlap(entries[i].footprint, aoi_geom).val]))

\* mutant of InsufficientOverlap: the comparison reversed
InsufficientOverlapReversed(overlap_sum, min_overlap_pct) ==
    RatLess(min_overlap_pct, overlap_sum)

\* np.sum(overlap_values) < min_overlap_pct
InsufficientOverlap(overlap_sum, min_overlap_pct) ==
    RatLess(overlap_sum, min_overlap_pct)

\* mutant of BetterDate: >= in place of >
BetterOrEqualDate(date_value, best_date_value) ==
    RatLeq(best_date_value, date_value)

\* date_value > best_date_value
BetterDate(date_value, best_date_value) == RatLess(best_date_value, date_value)

\* mutant of NoBest: the test never holds
NoBestNegative(best_date_value) == best_date_value.num < 0

\* not best_date_value
NoBest(best_date_value) == best_date_value.num = 0

\* -------------------------------------------------------------- grouping
\* date_groups is an insertion-ordered dictionary: a sequence of
\* [date, entries] whose dates are pairwise unequal as keys.

\* mutant of AppendToGroup: the group is overwritten, not appended to
AppendToGroupOverwrite(date_groups, date, e) ==
    LET hits == {i \in DOMAIN date_groups : DateEq(date_groups[i].date, date)}
    IN  IF hits = {}
        THEN Append(date_groups, [date |-> date, entries |-> <<e>>])
        ELSE LET i == CHOOSE i \in hits : TRUE
             IN  [date_groups EXCEPT ![i].entries = <<e>>]

\* date_groups[date].append(e)
AppendToGroup(date_groups, date, e) ==
    LET hits == {i \in DOMAIN date_groups : DateEq(date_groups[i].date, date)}
    IN  IF hits = {}
        THEN Append(date_groups, [date |-> date, entries |-> <<e>>])
        ELSE LET i == CHOOSE i \in hits : TRUE
             IN  [date_groups EXCEPT ![i].entries = Append(@, e)]

\* mutant of group_entries_by_date: an entry equal to an earlier one is dropped
RECURSIVE group_entries_by_date_unique(_)
group_entries_by_date_unique(parsed_entries) ==
    IF parsed_entries = <<>> THEN <<>>
    ELSE LET n == Len(parsed_entries)
             e == parsed_entries[n]
             rest == group_entries_by_date_unique(SubSeq(parsed_entries, 1, n - 1))
         IN  IF \E i \in 1..(n - 1) : parsed_entries[i] = e THEN rest
             ELSE AppendToGroup(rest, _average_datetime(e.start_date, e.end_date), e)

RECURSIVE group_entries_by_date(_)
group_entries_by_date(parsed_entries) ==
    IF parsed_entries = <<>> THEN <<>>
    ELSE LET n == Len(parsed_entries)
             e == parsed_entries[n]
         IN  AppendToGroup(group_entries_by_date(SubSeq(parsed_entries, 1, n - 1)),
                           _average_datetime(e.start_date, e.end_date), e)

\* ----------------------------------------------------------------- state

VARIABLES
    \* get_best_overpass: its arguments
    parsed_entries, aoi_geom, target_date, max_diff_hours, min_overlap_pct,
    \* get_best_overpass: its locals, its position and its outcome
    date_groups, idx, best_date_value, best_entries, pc, error, result,
    \* the skips reported by logger.debug (lines 99 and 111)
    log,
    \* _value_date called on its own: arguments, locals, position, outcome
    vd_overpass, vd_target, vd_max, vd_o, vd_t, vd_ddiff, vd_retries, vd_pc,
    vd_result

args == <<parsed_entries, aoi_geom, target_date, max_diff_hours, min_overlap_pct>>
locals == <<date_groups, idx, best_date_value, best_entries, pc, error, result, log>>
vd_args == <<vd_overpass, vd_target, vd_max>>
vd_locals == <<vd_o, vd_t, vd_ddiff, vd_retries, vd_pc, vd_result>>
vars == <<args, locals, vd_args, vd_locals>>

\* ---------------------------------------------------------------- inputs

Durations == {2, 3}
Footprints == {{1}, {1, 2}}
Aois == {{}, {1, 2}}
OneHour == TicksPerHour

Entries ==
    {[start_date |-> Naive(s), end_date |-> Naive(s + d), footprint |-> f] :
        s \in 0..MaxTime, d \in Durations, f \in Footprints}

EntryLists == UNION {[1..n -> Entries] : n \in 0..MaxEntries}

TargetWall == (MaxTime + 1) \div 2
TargetDates == {Naive(TargetWall), Aware(TargetWall, OneHour)}
MaxDiffHours == {0, 1}
MinOverlapPcts == {Rat(1, 2), RatOne}

VdTimestamps ==
    {Naive(w) : w \in 0..MaxTime}
        \cup {Aware(w, o) : w \in 0..MaxTime, o \in {0, OneHour}}
        \cup {Date(0)}
VdMaxDiffHours == {-1, 0, 1, 2}

\* the call of get_best_overpass has not begun
Idle ==
    /\ date_groups = <<>>
    /\ idx = 0
    /\ best_date_value = RatZero
    /\ best_entries = <<>>
    /\ pc = "group"
    /\ error = ""
    /\ result = <<>>
    /\ log = <<>>

\* no call of _value_date on its own
VdIdle ==
    /\ vd_ddiff = 0
    /\ vd_retries = 0
    /\ vd_result = Raised("")

\* ------------------------------------------------------ get_best_overpass

Init ==
    /\ parsed_entries \in EntryLists
    /\ aoi_geom \in Aois
    /\ target_date \in TargetDates
    /\ max_diff_hours \in MaxDiffHours
    /\ min_overlap_pct \in MinOverlapPcts
    /\ Idle
    /\ vd_overpass = Naive(0) /\ vd_target = Naive(0) /\ vd_max = 1
    /\ vd_o = Naive(0) /\ vd_t = Naive(0) /\ vd_pc = "off"
    /\ VdIdle

\* lines 88-93: group the entries, no best yet (best_entries = None is <<>>)
Group ==
    /\ pc = "group"
    /\ date_groups' = group_entries_by_date(parsed_entries)
    /\ idx' = 1
    /\ best_date_value' = RatZero
    /\ best_entries' = <<>>
    /\ pc' = "scan"
    /\ UNCHANGED <<args, error, result, log, vd_args, vd_locals>>

InLoop == pc = "scan" /\ idx \in DOMAIN date_groups
overpass_date == date_groups[idx].date
entries == date_groups[idx].entries
date_value == _value_date(overpass_date, target_date, max_diff_hours)
overlap_sum == OverlapSum(entries, aoi_geom)

\* continue, after logger.debug('Skipping date %s (reason)', overpass_date)
Skip(reason) ==
    /\ log' = Append(log, [date |-> overpass_date, reason |-> reason])
    /\ idx' = idx + 1
    /\ UNCHANGED <<args, date_groups, best_date_value, best_entries, pc, error,
                   result, vd_args, vd_locals>>

\* lines 98-100
SkipDateValueZero ==
    /\ InLoop
    /\ date_value.kind = "value"
    /\ date_value.val = RatZero
    /\ Skip("date value 0")

\* lines 110-112
SkipInsufficientOverlap ==
    /\ InLoop
    /\ date_value.kind = "value"
    /\ date_value.val # RatZero
    /\ overlap_sum.kind = "value"
    /\ InsufficientOverlap(overlap_sum.val, min_overlap_pct)
    /\ Skip("insufficient overlap")

\* lines 114-116
RecordBest ==
    /\ InLoop
    /\ date_value.kind = "value"
    /\ date_value.val # RatZero
    /\ overlap_sum.kind = "value"
    /\ ~InsufficientOverlap(overlap_sum.val, min_overlap_pct)
    /\ BetterDate(date_value.val, best_date_value)
    /\ best_date_value' = date_value.val
    /\ best_entries' = entries
    /\ idx' = idx + 1
    /\ UNCHANGED <<args, date_groups, pc, error, result, log, vd_args, vd_locals>>

\* line 114, the condition false
KeepBest ==
    /\ InLoop
    /\ date_value.kind = "value"
    /\ date_value.val # RatZero
    /\ overlap_sum.kind = "value"
    /\ ~InsufficientOverlap(overlap_sum.val, min_overlap_pct)
    /\ ~BetterDate(date_value.val, best_date_value)
    /\ idx' = idx + 1
    /\ UNCHANGED <<args, date_groups, best_date_value, best_entries, pc, error,
                   result, log, vd_args, vd_locals>>

\* an exception of _value_date (line 95) or _value_overlap (line 106) is
\* caught nowhere and ends the call
Propagate ==
    /\ InLoop
    /\ \/ /\ date_value.kind # "value"
          /\ error' = date_value.kind
       \/ /\ date_value.kind = "value"
          /\ date_value.val # RatZero
          /\ overlap_sum.kind # "value"
          /\ error' = overlap_sum.kind
    /\ pc' = "raised"
    /\ UNCHANGED <<args, date_groups, idx, best_date_value, best_entries, result,
                   log, vd_args, vd_locals>>

\* lines 118-119
RaiseNoOverpass ==
    /\ pc = "scan"
    /\ idx = Len(date_groups) + 1
    /\ NoBest(best_date_value)
    /\ pc' = "raised"
    /\ error' = "ValueError"
    /\ UNCHANGED <<args, date_groups, idx, best_date_value, best_entries, result,
                   log, vd_args, vd_locals>>

\* line 121
Return ==
    /\ pc = "scan"
    /\ idx = Len(date_groups) + 1
    /\ ~NoBest(best_date_value)
    /\ pc' = "returned"
    /\ result' = best_entries
    /\ UNCHANGED <<args, date_groups, idx, best_date_value, best_entries, error,
                   log, vd_args, vd_locals>>

Next ==
    \/ Group
    \/ SkipDateValueZero
    \/ SkipInsufficientOverlap
    \/ RecordBest
    \/ KeepBest
    \/ Propagate
    \/ RaiseNoOverpass
    \/ Return

Spec == Init /\ [][Next]_vars

\* ------------------------------------------------------------ _value_date

VdInit ==
    /\ vd_overpass \in VdTimestamps
    /\ vd_target \in VdTimestamps
    /\ vd_max \in VdMaxDiffHours
    /\ vd_o = vd_overpass
    /\ vd_t = vd_target
    /\ vd_pc = "try"
    /\ VdIdle
    /\ parsed_entries = <<>> /\ aoi_geom = {} /\ target_date = Naive(0)
    /\ max_diff_hours = 1 /\ min_overlap_pct = RatOne
    /\ Idle

\* line 39, the subtraction succeeding
VdSubtract ==
    /\ vd_pc = "try"
    /\ ~SubtractRaises(vd_o, vd_t)
    /\ vd_ddiff' = Subtract(vd_o, vd_t)
    /\ vd_pc' = "value"
    /\ UNCHANGED <<args, locals, vd_args, vd_o, vd_t, vd_retries, vd_result>>

\* lines 39-40, the subtraction raising TypeError
VdCatch ==
    /\ vd_pc = "try"
    /\ SubtractRaises(vd_o, vd_t)
    /\ vd_pc' = "except"
    /\ UNCHANGED <<args, locals, vd_args, vd_o, vd_t, vd_ddiff, vd_retries,
                   vd_result>>

\* lines 41-43: both locals rebound without tzinfo, the difference retried
VdRetry ==
    /\ vd_pc = "except"
    /\ ~ReplaceRaises(vd_o)
    /\ ~ReplaceRaises(vd_t)
    /\ ~SubtractRaises(ReplaceTzNone(vd_o), ReplaceTzNone(vd_t))
    /\ vd_o' = ReplaceTzNone(vd_o)
    /\ vd_t' = ReplaceTzNone(vd_t)
    /\ vd_ddiff' = Subtract(vd_o', vd_t')
    /\ vd_retries' = vd_retries + 1
    /\ vd_pc' = "value"
    /\ UNCHANGED <<args, locals, vd_args, vd_result>>

\* lines 41-43 raising: nothing catches an exception of the except branch
VdRetryRaises ==
    /\ vd_pc = "except"
    /\ \/ ReplaceRaises(vd_o)
       \/ ReplaceRaises(vd_t)
       \/ SubtractRaises(ReplaceTzNone(vd_o), ReplaceTzNone(vd_t))
    /\ vd_result' = Raised("TypeError")
    /\ vd_pc' = "raised"
    /\ UNCHANGED <<args, locals, vd_args, vd_o, vd_t, vd_ddiff, vd_retries>>

\* lines 44-50
VdValue ==
    /\ vd_pc = "value"
    /\ vd_result' = TimePct(DiffHours(vd_ddiff), vd_max)
    /\ vd_pc' = IF vd_result'.kind = "value" THEN "returned" ELSE "raised"
    /\ UNCHANGED <<args, locals, vd_args, vd_o, vd_t, vd_ddiff, vd_retries>>

VdNext == VdSubtract \/ VdCatch \/ VdRetry \/ VdRetryRaises \/ VdValue

VdSpec == VdInit /\ [][VdNext]_vars

\* -------------------------------------------------- group_entries_by_date

GroupEntries ==
    {[start_date |-> s, end_date |-> AddDelta(s, d), footprint |-> f] :
        s \in {Naive(w) : w \in 0..MaxTime}
                \cup {Aware(w, o) : w \in 0..MaxTime, o \in {0, OneHour}},
        d \in Durations, f \in Footprints}

GroupInit ==
    /\ parsed_entries \in UNION {[1..n -> GroupEntries] : n \in 0..MaxEntries}
    /\ aoi_geom = {1, 2} /\ target_date = Naive(TargetWall)
    /\ max_diff_hours = 1 /\ min_overlap_pct = RatOne
    /\ Idle
    /\ vd_overpass = Naive(0) /\ vd_target = Naive(0) /\ vd_max = 1
    /\ vd_o = Naive(0) /\ vd_t = Naive(0) /\ vd_pc = "off"
    /\ VdIdle

GroupSpec == GroupInit /\ [][Group]_vars

\* ------------------------------------------------------------ properties
\* The quantities the properties speak of, computed from the arguments of the
\* call alone.

MidOf(e) == _average_datetime(e.start_date, e.end_date)

\* the distance of two timestamps in ticks: on the UTC time line when both
\* are aware, between the wall clocks otherwise
TicksAway(d1, d2) ==
    IF d1.aware /\ d2.aware THEN Abs(Utc(d1) - Utc(d2))
    ELSE Abs(d1.wall - d2.wall)

CutoffTicks == max_diff_hours * TicksPerHour

\* a non-zero temporal value: strictly less than max_diff_hours away
WithinCutoff(date) == TicksAway(date, target_date) < CutoffTicks

\* the cells of the AOI covered by each entry, added up entry by entry
RECURSIVE CoveredCells(_)
CoveredCells(es) ==
    IF es = <<>> THEN 0
    ELSE Cardinality(es[1].footprint \cap aoi_geom) + CoveredCells(Tail(es))

\* the summed overlap of the entries is defined and >= min_overlap_pct
ReachesFloor(es) ==
    /\ Cardinality(aoi_geom) > 0
    /\ CoveredCells(es) * min_overlap_pct.den
           >= min_overlap_pct.num * Cardinality(aoi_geom)

\* the input entries whose midpoint equals date, in input order
GroupOf(date) ==
    LET SameDate(e) == DateEq(MidOf(e), date)
    IN  SelectSeq(parsed_entries, SameDate)

InputDates == {MidOf(parsed_entries[i]) : i \in DOMAIN parsed_entries}

QualifyingDates ==
    {d \in InputDates : WithinCutoff(d) /\ ReachesFloor(GroupOf(d))}

\* the qualifying dates nearest to the target date
NearestDates ==
    {d \in QualifyingDates :
        \A o \in QualifyingDates :
            TicksAway(d, target_date) <= TicksAway(o, target_date)}

\* the position in the input of the first entry of the group of date
FirstIndex(date) ==
    CHOOSE i \in DOMAIN parsed_entries :
        /\ DateEq(MidOf(parsed_entries[i]), date)
        /\ \A j \in 1..(i - 1) : ~DateEq(MidOf(parsed_entries[j]), date)

Terminal == pc \in {"returned", "raised"}
VdTerminal == vd_pc \in {"returned", "raised"}

\* the indexes of the groups the scan has passed
Scanned == {j \in DOMAIN date_groups : j < idx}

SkippedFor(j, reason) ==
    \E k \in DOMAIN log :
        log[k] = [date |-> date_groups[j].date, reason |-> reason]

\* C1: whenever get_best_overpass returns (max_diff_hours > 0), the returned
\* group has a temporal value strictly greater than 0, its midpoint being
\* strictly less than max_diff_hours away from the target date, and the sum
\* of its entries' overlap values is >= min_overlap_pct.
C1_ReturnedGroupQualifies ==
    (pc = "returned" /\ max_diff_hours > 0) =>
        /\ result # <<>>
        /\ WithinCutoff(MidOf(result[1]))
        /\ LET v == _value_date(MidOf(result[1]), target_date, max_diff_hours)
           IN  v.kind = "value" /\ RatLess(RatZero, v.val)
        /\ ReachesFloor(result)

\* a group is returned although another one was skipped for its date value
\* or for its overlap
C1_Witness ==
    /\ pc = "returned"
    /\ max_diff_hours > 0
    /\ Len(date_groups) = 2
    /\ log # <<>>

\* C2 as stated: the call raises ValueError if and only if no date group
\* has both a non-zero temporal value and a summed overlap >=
\* min_overlap_pct, and in every other case it returns a group.
C2_ValueErrorIffNoneQualifies ==
    Terminal =>
        IF QualifyingDates = {}
        THEN pc = "raised" /\ error = "ValueError"
        ELSE pc = "returned"

\* the scan meets a division by zero: max_diff_hours = 0 with a group at the
\* target date, or an AOI of area zero with a group within the cutoff
DividesByZero ==
    \/ /\ max_diff_hours = 0
       /\ \E d \in InputDates : TicksAway(d, target_date) = 0
    \/ /\ Cardinality(aoi_geom) = 0
       /\ \E d \in InputDates : WithinCutoff(d)

\* C2 amended: the call raises ZeroDivisionError when the scan meets a
\* division by zero; in every other case it raises ValueError if and only if
\* no date group has both a non-zero temporal value and a summed overlap >=
\* min_overlap_pct, and returns a group otherwise.
C2_Amended ==
    Terminal =>
        IF DividesByZero
        THEN pc = "raised" /\ error = "ZeroDivisionError"
        ELSE IF QualifyingDates = {}
        THEN pc = "raised" /\ error = "ValueError"
        ELSE pc = "returned" /\ error = ""

\* ValueError although a group lies within the cutoff: its overlap is below
\* the floor
C2_Witness ==
    /\ pc = "raised"
    /\ error = "ValueError"
    /\ max_diff_hours > 0
    /\ Cardinality(aoi_geom) > 0
    /\ \E d \in InputDates : WithinCutoff(d) /\ ~ReachesFloor(GroupOf(d))

\* C3: when the qualifying groups have pairwise different temporal values,
\* the call returns the qualifying group nearest to the target date, in
\* whichever order the input lists the entries and whatever the overlaps
\* above the floor are.
C3_NearestQualifyingWins ==
    (/\ Terminal
     /\ QualifyingDates # {}
     /\ \A d1, d2 \in QualifyingDates :
            TicksAway(d1, target_date) = TicksAway(d2, target_date) => d1 = d2)
        => /\ pc = "returned"
           /\ result # <<>>
           /\ MidOf(result[1]) \in NearestDates

\* two groups qualify; the nearer one is scanned last and covers less of the
\* AOI than the other one, and is returned
C3_Witness ==
    /\ pc = "returned"
    /\ Len(date_groups) = 2
    /\ QualifyingDates = {date_groups[1].date, date_groups[2].date}
    /\ TicksAway(date_groups[2].date, target_date)
           < TicksAway(date_groups[1].date, target_date)
    /\ CoveredCells(date_groups[2].entries) < CoveredCells(date_groups[1].entries)
    /\ result = date_groups[2].entries

\* C4: when several qualifying groups share the maximal temporal value, the
\* one whose first entry comes first in the input is returned; during the
\* scan a group never replaces a recorded best of equal temporal value.
C4_FirstOfTiesWins ==
    /\ (pc = "returned" /\ Cardinality(NearestDates) >= 2) =>
           /\ result # <<>>
           /\ MidOf(result[1]) \in NearestDates
           /\ \A d \in NearestDates :
                  FirstIndex(MidOf(result[1])) <= FirstIndex(d)
    /\ (pc \in {"scan", "returned"} /\ best_entries # <<>>) =>
           \E b \in Scanned :
               /\ best_entries = date_groups[b].entries
               /\ \A j \in Scanned :
                      (/\ date_groups[j].date \in QualifyingDates
                       /\ TicksAway(date_groups[j].date, target_date)
                              = TicksAway(date_groups[b].date, target_date))
                          => b <= j

\* two qualifying groups equally far before and after the target date; the
\* first one in the input is returned
C4_Witness ==
    /\ pc = "returned"
    /\ Cardinality(NearestDates) = 2
    /\ \E d \in NearestDates : d.wall < target_date.wall
    /\ \E d \in NearestDates : d.wall > target_date.wall
    /\ result = date_groups[1].entries

\* C8: a group within the time cutoff passes the overlap gate if and only if
\* the arithmetic sum of its entries' overlap values is >= min_overlap_pct.
C8_GateComparesSum ==
    \A j \in Scanned :
        (WithinCutoff(date_groups[j].date) /\ Cardinality(aoi_geom) > 0) =>
            (SkippedFor(j, "insufficient overlap")
                 <=> ~ReachesFloor(date_groups[j].entries))

\* a group of two entries with the same footprint, each below the floor,
\* whose overlap values add up to exactly the floor, is returned
C8_Witness ==
    /\ pc = "returned"
    /\ Len(result) = 2
    /\ result[1].footprint = result[2].footprint
    /\ \A i \in 1..2 : ~ReachesFloor(<<result[i]>>)
    /\ CoveredCells(result) * min_overlap_pct.den
           = min_overlap_pct.num * Cardinality(aoi_geom)

RECURSIVE TotalLen(_)
TotalLen(groups) ==
    IF groups = <<>> THEN 0 ELSE Len(groups[1].entries) + TotalLen(Tail(groups))

\* C7: group_entries_by_date partitions its input: every entry is in
\* exactly one group, the one keyed by its midpoint; the keys are pairwise
\* unequal; nothing is dropped or deduplicated; each group keeps the input
\* order.
C7_GroupingPartitions ==
    pc # "group" =>
        /\ \A i \in DOMAIN parsed_entries :
               \E g \in DOMAIN date_groups :
                   /\ DateEq(date_groups[g].date, MidOf(parsed_entries[i]))
                   /\ \A h \in DOMAIN date_groups :
                          (\E k \in DOMAIN date_groups[h].entries :
                               date_groups[h].entries[k] = parsed_entries[i])
                              <=> h = g
        /\ \A g \in DOMAIN date_groups :
               date_groups[g].entries = GroupOf(date_groups[g].date)
        /\ \A g, h \in DOMAIN date_groups :
               DateEq(date_groups[g].date, date_groups[h].date) => g = h
        /\ Len(parsed_entries) = TotalLen(date_groups)

\* two different entries with the same midpoint share a group, in input order
C7_Witness ==
    /\ pc # "group"
    /\ Len(date_groups) = 1
    /\ Len(parsed_entries) = 2
    /\ parsed_entries[1].start_date # parsed_entries[2].start_date
    /\ date_groups[1].entries = parsed_entries

\* the distance of the two arguments of _value_date in ticks, and the cutoff
VdTicks == TicksAway(vd_overpass, vd_target)
VdCutoff == vd_max * TicksPerHour
VdDatetimes == vd_overpass.cls = "datetime" /\ vd_target.cls = "datetime"

\* C5: for max_diff_hours > 0 _value_date returns a value in [0,1]:
\* (max_diff_hours - d) / max_diff_hours when the difference d in hours is
\* <= max_diff_hours and 0 when it is greater; 1 at d = 0, 0 from
\* d = max_diff_hours on, and no larger for a larger d.
C5_ValueDateFormula ==
    (VdTerminal /\ vd_max > 0 /\ VdDatetimes) =>
        /\ vd_pc = "returned"
        /\ vd_result.kind = "value"
        /\ RatLeq(RatZero, vd_result.val) /\ RatLeq(vd_result.val, RatOne)
        /\ VdTicks <= VdCutoff =>
               vd_result.val = Rat(VdCutoff - VdTicks, VdCutoff)
        /\ VdTicks > VdCutoff => vd_result.val = RatZero
        /\ VdTicks = 0 => vd_result.val = RatOne
        /\ VdTicks >= VdCutoff => vd_result.val = RatZero
        /\ \A o, t \in VdTimestamps :
               (/\ o.cls = "datetime" /\ t.cls = "datetime"
                /\ TicksAway(o, t) >= VdTicks)
                   => RatLeq(_value_date(o, t, vd_max).val, vd_result.val)

\* a value strictly between 0 and 1
C5_Witness ==
    /\ vd_pc = "returned"
    /\ vd_max > 0
    /\ VdDatetimes
    /\ 0 < VdTicks /\ VdTicks < VdCutoff
    /\ RatLess(RatZero, vd_result.val) /\ RatLess(vd_result.val, RatOne)

\* C6: _value_date(a, b, max_diff_hours) equals
\* _value_date(b, a, max_diff_hours), whatever the two timestamps and the
\* cutoff are.
C6_ValueDateSymmetric ==
    VdTerminal => vd_result = _value_date(vd_target, vd_overpass, vd_max)

\* two different instants within the cutoff
C6_Witness ==
    /\ vd_pc = "returned"
    /\ VdDatetimes
    /\ vd_ddiff # 0
    /\ vd_result.val # RatZero

\* exactly one of the two datetimes is timezone-aware
MixedAwareness == VdDatetimes /\ vd_overpass.aware # vd_target.aware

====
